---- MODULE Spec2Model ----
(***************************************************************************)
(* Forest-fire risk prediction service (FireRiskMLService and the JSON     *)
(* wrapper mlPredictionService).                                           *)
(*                                                                         *)
(* Numbers.  Coordinates are in tenths of a degree (the region table has   *)
(* one decimal).  Every other real quantity (feature values, scores,       *)
(* confidences) is fixed point in thousandths: 0.75 is 750, 25.0 is 25000. *)
(* Only the float32 cast of the feature vector is rounded.                 *)
(***************************************************************************)
EXTENDS Integers, Sequences, FiniteSets, TLC

VARIABLES
    pc,          \* the process: "start" before realMLModelService is imported, "ready" after
    model_file,  \* the file at model_path
    ml_service,  \* the global instance: [model, threshold, is_initialized, returned]
    initCount,   \* how many times _initialize_model has run in this process
    startup,     \* what the global instance's initialisation met: [disk, env]
    today,       \* datetime.now().timetuple().tm_yday
    result,      \* the last call of an entry point: its inputs and what it gave back
    coord,      \* region resolver: the coordinate asked about, [lat, lng]
    detected,   \* region resolver: the name returned, NotCalled before the call
    featIn,     \* vectorizer: the feature mapping handed in
    vecOut      \* vectorizer: the vector returned, <<>> before the call

regionVars == <<coord, detected>>
vectorVars == <<featIn, vecOut>>

serviceVars == <<pc, model_file, ml_service, initCount, startup, today, result>>

vars == <<pc, model_file, ml_service, initCount, startup, today, result,
          coord, detected, featIn, vecOut>>

NotCalled == "-"

\* The other specifications leave the resolver's harness here.
RegionIdle ==
    /\ coord = [lat |-> 0, lng |-> 0]
    /\ detected = NotCalled

\* The other specifications leave the vectorizer's harness here.
VectorIdle ==
    /\ featIn = <<>>
    /\ vecOut = <<>>

(***************************************************************************)
(* RegionResolver                                                          *)
(***************************************************************************)

\* self.regions_map, in declaration order (a dict keeps insertion order);
\* tenths of a degree.
regions_map == <<
    [name |-> "Uttarakhand", lat_min |-> 287, lat_max |-> 313, lng_min |-> 775, lng_max |-> 815],
    [name |-> "Himachal Pradesh", lat_min |-> 300, lat_max |-> 330, lng_min |-> 755, lng_max |-> 795],
    [name |-> "Punjab", lat_min |-> 295, lat_max |-> 325, lng_min |-> 735, lng_max |-> 765],
    [name |-> "Haryana", lat_min |-> 275, lat_max |-> 305, lng_min |-> 745, lng_max |-> 775],
    [name |-> "Delhi", lat_min |-> 284, lat_max |-> 289, lng_min |-> 768, lng_max |-> 773],
    [name |-> "Uttar Pradesh", lat_min |-> 238, lat_max |-> 304, lng_min |-> 770, lng_max |-> 846],
    [name |-> "Rajasthan", lat_min |-> 230, lat_max |-> 302, lng_min |-> 695, lng_max |-> 783],
    [name |-> "Madhya Pradesh", lat_min |-> 211, lat_max |-> 269, lng_min |-> 740, lng_max |-> 828],
    [name |-> "Maharashtra", lat_min |-> 156, lat_max |-> 220, lng_min |-> 726, lng_max |-> 809],
    [name |-> "Gujarat", lat_min |-> 201, lat_max |-> 247, lng_min |-> 682, lng_max |-> 745],
    [name |-> "Odisha", lat_min |-> 178, lat_max |-> 226, lng_min |-> 813, lng_max |-> 875],
    [name |-> "Chhattisgarh", lat_min |-> 178, lat_max |-> 241, lng_min |-> 802, lng_max |-> 844],
    [name |-> "Jharkhand", lat_min |-> 219, lat_max |-> 253, lng_min |-> 833, lng_max |-> 876],
    [name |-> "West Bengal", lat_min |-> 215, lat_max |-> 272, lng_min |-> 858, lng_max |-> 899],
    [name |-> "Bihar", lat_min |-> 242, lat_max |-> 275, lng_min |-> 833, lng_max |-> 882],
    [name |-> "Assam", lat_min |-> 241, lat_max |-> 282, lng_min |-> 897, lng_max |-> 960],
    [name |-> "Meghalaya", lat_min |-> 250, lat_max |-> 261, lng_min |-> 899, lng_max |-> 928],
    [name |-> "Tripura", lat_min |-> 229, lat_max |-> 245, lng_min |-> 910, lng_max |-> 927],
    [name |-> "Manipur", lat_min |-> 238, lat_max |-> 257, lng_min |-> 930, lng_max |-> 948],
    [name |-> "Mizoram", lat_min |-> 219, lat_max |-> 245, lng_min |-> 922, lng_max |-> 934],
    [name |-> "Nagaland", lat_min |-> 252, lat_max |-> 270, lng_min |-> 932, lng_max |-> 958],
    [name |-> "Arunachal Pradesh", lat_min |-> 266, lat_max |-> 295, lng_min |-> 912, lng_max |-> 974],
    [name |-> "Sikkim", lat_min |-> 270, lat_max |-> 281, lng_min |-> 880, lng_max |-> 889],
    [name |-> "Jammu and Kashmir", lat_min |-> 322, lat_max |-> 371, lng_min |-> 732, lng_max |-> 803],
    [name |-> "Ladakh", lat_min |-> 322, lat_max |-> 371, lng_min |-> 759, lng_max |-> 799],
    [name |-> "Goa", lat_min |-> 150, lat_max |-> 158, lng_min |-> 737, lng_max |-> 743],
    [name |-> "Kerala", lat_min |-> 82, lat_max |-> 128, lng_min |-> 749, lng_max |-> 774],
    [name |-> "Tamil Nadu", lat_min |-> 81, lat_max |-> 136, lng_min |-> 762, lng_max |-> 803],
    [name |-> "Karnataka", lat_min |-> 115, lat_max |-> 185, lng_min |-> 740, lng_max |-> 786],
    [name |-> "Andhra Pradesh", lat_min |-> 126, lat_max |-> 199, lng_min |-> 770, lng_max |-> 848],
    [name |-> "Telangana", lat_min |-> 160, lat_max |-> 199, lng_min |-> 772, lng_max |-> 818]
>>

RegionNames == {regions_map[i].name : i \in 1..Len(regions_map)}

\* lat_min <= latitude <= lat_max and lng_min <= longitude <= lng_max
InBounds(bounds, latitude, longitude) ==
    /\ bounds.lat_min <= latitude /\ latitude <= bounds.lat_max
    /\ bounds.lng_min <= longitude /\ longitude <= bounds.lng_max

\* The first loop with the order of the scan reversed.
RECURSIVE FirstMatchReversed(_, _, _)
FirstMatchReversed(latitude, longitude, i) ==
    LET k == Len(regions_map) + 1 - i IN
    IF i > Len(regions_map) THEN 0
    ELSE IF InBounds(regions_map[k], latitude, longitude) THEN k
    ELSE FirstMatchReversed(latitude, longitude, i + 1)

\* The first loop: the index of the first entry, from entry i on, whose box
\* holds the point; 0 when the loop ends without returning.
RECURSIVE FirstMatch(_, _, _)
FirstMatch(latitude, longitude, i) ==
    IF i > Len(regions_map) THEN 0
    ELSE IF InBounds(regions_map[i], latitude, longitude) THEN i
    ELSE FirstMatch(latitude, longitude, i + 1)

\* float('inf'): no distance is negative, so -1 stands for it.
Infinity == -1

\* ((latitude - lat_center) ** 2 + (longitude - lng_center) ** 2) ** 0.5, kept
\* as four times its square so that the half-tenths of a centre stay whole;
\* the square root and the factor are strictly increasing, so every `<` below
\* decides as in the source.
Distance(bounds, latitude, longitude) ==
    LET lat_center2 == bounds.lat_min + bounds.lat_max
        lng_center2 == bounds.lng_min + bounds.lng_max
    IN  (2 * latitude - lat_center2) * (2 * latitude - lat_center2)
      + (2 * longitude - lng_center2) * (2 * longitude - lng_center2)

\* `distance <= min_distance`, the comparison that lets a later entry win a tie.
CloserOrEqual(distance, min_distance) ==
    min_distance = Infinity \/ distance <= min_distance

\* distance < min_distance
Closer(distance, min_distance) ==
    min_distance = Infinity \/ distance < min_distance

\* The second loop, from entry i on, with the running minimum.
RECURSIVE ClosestRegion(_, _, _, _, _)
ClosestRegion(latitude, longitude, i, min_distance, closest_region) ==
    IF i > Len(regions_map) THEN closest_region
    ELSE LET distance == Distance(regions_map[i], latitude, longitude) IN
         IF Closer(distance, min_distance)
         THEN ClosestRegion(latitude, longitude, i + 1, distance, regions_map[i].name)
         ELSE ClosestRegion(latitude, longitude, i + 1, min_distance, closest_region)

detect_region_from_coordinates(latitude, longitude) ==
    LET i == FirstMatch(latitude, longitude, 1) IN
    IF i # 0 THEN regions_map[i].name
    ELSE ClosestRegion(latitude, longitude, 1, Infinity, "Unknown")

(***************************************************************************)
(* Feature mappings and the Vectorizer                                     *)
(*                                                                         *)
(* A feature mapping is a function from the keys it holds to numbers in    *)
(* thousandths.  The float32 cast of the vector keeps a 24-bit             *)
(* significand; float64 rounding and NaN are not modelled.                 *)
(***************************************************************************)

\* features.get(key, default)
Get(features, key, default) ==
    IF key \in DOMAIN features THEN features[key] ELSE default

\* The product of two fixed-point numbers.
Mul(a, b) == (a * b) \div 1000

\* Directions (degrees, in thousandths) whose cosine and sine the model knows.
Directions == {0, 60000, 90000, 180000, 270000}

\* np.cos(np.radians(d)), in thousandths.
CosDeg(d) ==
    CASE d = 0 -> 1000
      [] d = 60000 -> 500
      [] d = 90000 -> 0
      [] d = 180000 -> -1000
      [] d = 270000 -> 0

\* np.sin(np.radians(d)), in thousandths.
SinDeg(d) ==
    CASE d = 0 -> 0
      [] d = 60000 -> 866
      [] d = 90000 -> 1000
      [] d = 180000 -> 0
      [] d = 270000 -> -1000

Abs(x) == IF x < 0 THEN -x ELSE x

\* The spacing of the 24-bit significands at magnitude a.
RECURSIVE Quantum(_, _)
Quantum(a, q) == IF a < 16777216 * q THEN q ELSE Quantum(a, 2 * q)

\* dtype=np.float32: the nearest number with a 24-bit significand.
ToFloat32(x) ==
    LET q == Quantum(Abs(x), 1)
        r == ((Abs(x) + q \div 2) \div q) * q
    IN  IF x < 0 THEN -r ELSE r

\* lag_variations = [0.85, 0.92, 1.0]
lag_variations == <<850, 920, 1000>>

\* temp, u_wind, v_wind, wind_speed, ndvi, in band order.
DynamicBands(features) ==
    LET windSpeed == Get(features, "windSpeed", 5000)
        windDirection == Get(features, "windDirection", 270000)
    IN  << Get(features, "temperature", 25000),
           Mul(windSpeed, CosDeg(windDirection)),
           Mul(windSpeed, SinDeg(windDirection)),
           windSpeed,
           Get(features, "vegetationIndex", 500) >>

\* The loop over lag_variations, from factor k on, extending dynamic_lags.
RECURSIVE DynamicLags(_, _)
DynamicLags(bands, k) ==
    IF k > Len(lag_variations) THEN <<>>
    ELSE [b \in 1..Len(bands) |-> Mul(bands[b], lag_variations[k])]
            \o DynamicLags(bands, k + 1)

\* The difference taken the wrong way round: the earlier day minus the later.
DiffReversed(dynamic_lags, i, j) ==
    dynamic_lags[i * 5 + j + 1] - dynamic_lags[(i + 1) * 5 + j + 1]

\* diff = dynamic_lags[next_idx + j] - dynamic_lags[base_idx + j], for the
\* source's zero-based i and j.
Diff(dynamic_lags, i, j) ==
    dynamic_lags[(i + 1) * 5 + j + 1] - dynamic_lags[i * 5 + j + 1]

\* The two difference sets, in the order they are appended.
DiffFeatures(dynamic_lags) ==
    [n \in 1..10 |-> Diff(dynamic_lags, (n - 1) \div 5, (n - 1) % 5)]

\* burn_now = 0.0
burn_now == 0

StaticFeatures(features) ==
    << Get(features, "landUse", 50000),
       Get(features, "elevation", 500000),
       Get(features, "slope", 10000),
       Get(features, "aspect", 180000),
       Get(features, "hillshade", 200000) >>

\* Ensure we have exactly 31 features: pad with zeros or truncate.
FitLength(vector) ==
    IF Len(vector) = 31 THEN vector
    ELSE IF Len(vector) < 31
         THEN vector \o [n \in 1..(31 - Len(vector)) |-> 0]
         ELSE SubSeq(vector, 1, 31)

\* A vectorizer that appends only the keys the mapping holds and does not
\* adjust the length.
FeaturesToVectorPresentOnly(features) ==
    LET dynamic_lags == DynamicLags(DynamicBands(features), 1)
        held == SelectSeq(<<"landUse", "elevation", "slope", "aspect", "hillshade">>,
                          LAMBDA key : key \in DOMAIN features)
        vector == dynamic_lags \o DiffFeatures(dynamic_lags) \o <<burn_now>>
                    \o [n \in 1..Len(held) |-> features[held[n]]]
    IN  [n \in 1..Len(vector) |-> ToFloat32(vector[n])]

_features_to_vector(features) ==
    LET dynamic_lags == DynamicLags(DynamicBands(features), 1)
        vector == FitLength(dynamic_lags \o DiffFeatures(dynamic_lags)
                                \o <<burn_now>> \o StaticFeatures(features))
    IN  [n \in 1..Len(vector) |-> ToFloat32(vector[n])]

\* The twelve keys of a synthesized feature mapping.
BaseKeys == {"temperature", "humidity", "windSpeed", "precipitation",
             "vegetationIndex", "soilMoisture", "elevation", "slope",
             "aspect", "windDirection", "landUse", "hillshade"}

\* Value profiles, none of them a default of the vectorizer: a warm windy
\* day, the low ends of the ranges with an elevation that the float32 cast
\* rounds, and the high ends.
VectorProfiles == {
    [temperature |-> 30000, humidity |-> 40000, windSpeed |-> 10000,
     precipitation |-> 1000, vegetationIndex |-> 400, soilMoisture |-> 25000,
     elevation |-> 2000000, slope |-> 15000, aspect |-> 90000,
     windDirection |-> 60000, landUse |-> 60000, hillshade |-> 120000],
    [temperature |-> -10000, humidity |-> 10000, windSpeed |-> 1000,
     precipitation |-> 0, vegetationIndex |-> -1000, soilMoisture |-> 0,
     elevation |-> 20000001, slope |-> 0, aspect |-> 0,
     windDirection |-> 180000, landUse |-> 0, hillshade |-> 0],
    [temperature |-> 50000, humidity |-> 100000, windSpeed |-> 30000,
     precipitation |-> 9000, vegetationIndex |-> 1000, soilMoisture |-> 100000,
     elevation |-> 3500000, slope |-> 45000, aspect |-> 270000,
     windDirection |-> 90000, landUse |-> 100000, hillshade |-> 255000] }

(***************************************************************************)
(* FeatureSynthesizer and FeatureMerger                                    *)
(***************************************************************************)

Min(a, b) == IF a < b THEN a ELSE b
Max(a, b) == IF a > b THEN a ELSE b

\* The days of the year the model knows the seasonal cosine of: the peak of
\* the curve, a day a quarter of a year later, and the trough.
DaysOfYear == {100, 191, 282}

\* np.cos(2 * np.pi * (day_of_year - 100) / 365), in thousandths.
CosSeason(day_of_year) ==
    CASE day_of_year = 100 -> 1000
      [] day_of_year = 191 -> 4
      [] day_of_year = 282 -> -1000

\* elevation_base = {...}.get(region, 500), in thousandths of a metre.
ElevationBase(region) ==
    CASE region = "Uttarakhand" -> 2000000
      [] region = "Himachal Pradesh" -> 2500000
      [] region = "Jammu and Kashmir" -> 3000000
      [] region = "Ladakh" -> 3500000
      [] region = "Sikkim" -> 2000000
      [] region = "Arunachal Pradesh" -> 1500000
      [] region = "Delhi" -> 200000
      [] region = "Punjab" -> 250000
      [] region = "Haryana" -> 220000
      [] region = "Rajasthan" -> 300000
      [] region = "Gujarat" -> 150000
      [] region = "Maharashtra" -> 400000
      [] region = "Goa" -> 50000
      [] region = "Karnataka" -> 600000
      [] region = "Kerala" -> 300000
      [] region = "Tamil Nadu" -> 200000
      [] region = "Andhra Pradesh" -> 300000
      [] region = "Telangana" -> 400000
      [] region = "Odisha" -> 200000
      [] region = "West Bengal" -> 100000
      [] region = "Bihar" -> 150000
      [] region = "Jharkhand" -> 300000
      [] region = "Chhattisgarh" -> 350000
      [] region = "Madhya Pradesh" -> 450000
      [] region = "Uttar Pradesh" -> 200000
      [] region = "Assam" -> 100000
      [] OTHER -> 500000

\* One draw of every random term of a feature synthesis: the Gaussian noise
\* added to each feature (slope is the whole N(10, 8) sample), the uniform
\* aspect and wind direction, and the noise of the six synthetic bands.
NoiseProfiles == {
    [temperature |-> 0, humidity |-> 0, windSpeed |-> 0, precipitation |-> 0,
     vegetationIndex |-> 0, soilMoisture |-> 0, elevation |-> 0,
     slope |-> 10000, aspect |-> 90000, windDirection |-> 270000,
     landUse |-> 0, hillshade |-> 0,
     blue |-> 0, green |-> 0, red |-> 0, nir |-> 0, swir1 |-> 0, swir2 |-> 0],
    [temperature |-> 40000, humidity |-> 80000, windSpeed |-> 40000,
     precipitation |-> 10000, vegetationIndex |-> 2000, soilMoisture |-> 100000,
     elevation |-> 600000, slope |-> 60000, aspect |-> 0, windDirection |-> 0,
     landUse |-> 80000, hillshade |-> 200000,
     blue |-> 2000, green |-> 2000, red |-> 2000, nir |-> 2000,
     swir1 |-> 2000, swir2 |-> 2000],
    [temperature |-> -50000, humidity |-> -80000, windSpeed |-> -20000,
     precipitation |-> -10000, vegetationIndex |-> -3000, soilMoisture |-> -60000,
     elevation |-> -5000000, slope |-> -5000, aspect |-> 180000,
     windDirection |-> 180000, landUse |-> -90000, hillshade |-> -300000,
     blue |-> -2000, green |-> -2000, red |-> -2000, nir |-> -2000,
     swir1 |-> -2000, swir2 |-> -2000] }

\* extract_environmental_features; latitude and longitude in tenths of a
\* degree, noise one draw of its random terms.  Its except branch (the
\* default features) is not modelled: no step of the try block raises for a
\* numeric coordinate.
extract_environmental_features(latitude, longitude, day_of_year, noise) ==
    LET season_factor == 500 + Mul(500, CosSeason(day_of_year))
        lat_factor == ((latitude * 100 - 8000) * 1000) \div 30000
        region == detect_region_from_coordinates(latitude, longitude)
        elevation == Max(0, ElevationBase(region) + noise.elevation)
        base_aspect == noise.aspect
        features ==
            [temperature |-> 15000 + Mul(15000, season_factor)
                               - Mul(5000, lat_factor) + noise.temperature,
             humidity |-> 40000 + Mul(30000, 1000 - season_factor) + noise.humidity,
             windSpeed |-> 2000 + Mul(8000, season_factor) + noise.windSpeed,
             precipitation |-> Mul(5000, 1000 - season_factor) + noise.precipitation,
             vegetationIndex |-> 300 + Mul(400, 1000 - season_factor)
                                   + noise.vegetationIndex,
             soilMoisture |-> 20000 + Mul(30000, 1000 - season_factor)
                                + noise.soilMoisture,
             elevation |-> elevation,
             slope |-> Min(45000, Max(0, noise.slope)),
             aspect |-> base_aspect,
             windDirection |-> noise.windDirection,
             landUse |-> 50000 + noise.landUse,
             hillshade |-> 150000 + Mul(100000, SinDeg(base_aspect))
                             + noise.hillshade]
    IN  [features EXCEPT
            !.temperature = Max(-10000, Min(50000, @)),
            !.humidity = Max(10000, Min(100000, @)),
            !.windSpeed = Max(0, Min(30000, @)),
            !.precipitation = Max(0, @),
            !.vegetationIndex = Max(-1000, Min(1000, @)),
            !.soilMoisture = Max(0, Min(100000, @)),
            !.landUse = Max(0, Min(100000, @)),
            !.hillshade = Max(0, Min(255000, @))]

\* earth_engine_features = None
NoFeatures == [None |-> 0]

\* A test `is not None`, which an empty dict passes.
IsNotNone(earth_engine_features) == earth_engine_features # NoFeatures

\* `if earth_engine_features:`: neither None nor an empty dict.
Truthy(earth_engine_features) ==
    earth_engine_features # NoFeatures /\ DOMAIN earth_engine_features # {}

spectral_bands == <<"blue", "green", "red", "nir", "swir1", "swir2">>

\* The function f overridden by g on the keys of g (dict.update).
Update(f, g) ==
    [key \in DOMAIN f \cup DOMAIN g |-> IF key \in DOMAIN g THEN g[key] ELSE f[key]]

\* max(0.0, min(1.0, band)) for every spectral band the mapping holds.
ClampBands(features) ==
    [key \in DOMAIN features |->
        IF \E n \in 1..Len(spectral_bands) : spectral_bands[n] = key
        THEN Max(0, Min(1000, features[key]))
        ELSE features[key]]

\* A merge that takes the NDVI from the bands as supplied, before the clamp.
MergeUnclampedNdvi(base_features, earth_engine_features) ==
    LET ee == earth_engine_features
        red == Get(ee, "red", 250)
        nir == Get(ee, "nir", 500)
        ndvi_calculated ==
            IF red + nir > 0
            THEN ((nir - red) * 1000) \div (nir + red)
            ELSE Get(ee, "vegetationIndex", base_features["vegetationIndex"])
        merged == ClampBands(Update(base_features,
                     Update([blue |-> 150, green |-> 200, red |-> 250, nir |-> 500,
                             swir1 |-> 350, swir2 |-> 250,
                             modisNdvi |-> Get(ee, "modisNdvi",
                                               base_features["vegetationIndex"])],
                            ee)))
    IN  Update(merged, [ndvi_calculated |-> ndvi_calculated,
                        vegetationIndex |-> ndvi_calculated])

\* The branch taken when earth_engine_features is truthy.
MergeEarthEngine(base_features, earth_engine_features) ==
    LET ee == earth_engine_features
        feature_mapping ==
            [temperature |-> Get(ee, "temperature", base_features["temperature"]),
             humidity |-> Get(ee, "humidity", base_features["humidity"]),
             windSpeed |-> Get(ee, "windSpeed", base_features["windSpeed"]),
             precipitation |-> Get(ee, "precipitation", base_features["precipitation"]),
             vegetationIndex |-> Get(ee, "vegetationIndex",
                                     base_features["vegetationIndex"]),
             soilMoisture |-> Get(ee, "soilMoisture", base_features["soilMoisture"]),
             elevation |-> Get(ee, "elevation", base_features["elevation"]),
             slope |-> Get(ee, "slope", base_features["slope"]),
             blue |-> Get(ee, "blue", 150),
             green |-> Get(ee, "green", 200),
             red |-> Get(ee, "red", 250),
             nir |-> Get(ee, "nir", 500),
             swir1 |-> Get(ee, "swir1", 350),
             swir2 |-> Get(ee, "swir2", 250),
             modisNdvi |-> Get(ee, "modisNdvi", base_features["vegetationIndex"])]
        clamped == ClampBands(Update(base_features, feature_mapping))
        red == clamped["red"]
        nir == clamped["nir"]
        ndvi_calculated ==
            IF red + nir > 0
            THEN ((nir - red) * 1000) \div (nir + red)
            ELSE clamped["vegetationIndex"]
        with_ndvi ==
            IF {"red", "nir"} \subseteq DOMAIN clamped
            THEN Update(clamped, [ndvi_calculated |-> ndvi_calculated])
            ELSE clamped
    IN  IF "ndvi_calculated" \in DOMAIN with_ndvi
        THEN [with_ndvi EXCEPT !["vegetationIndex"] = with_ndvi["ndvi_calculated"]]
        ELSE with_ndvi

\* The branch taken otherwise: synthetic spectral bands.
SyntheticBands(base_features, noise) ==
    ClampBands(Update(base_features,
        [blue |-> 150 + noise.blue,
         green |-> 200 + noise.green,
         red |-> 250 + noise.red,
         nir |-> 500 + noise.nir,
         swir1 |-> 350 + noise.swir1,
         swir2 |-> 250 + noise.swir2,
         modisNdvi |-> base_features["vegetationIndex"]]))

\* An extraction that takes the vegetation index from the bands in both
\* branches.
ExtractAlwaysRecomputing(latitude, longitude, earth_engine_features, day_of_year, noise) ==
    LET base_features ==
            extract_environmental_features(latitude, longitude, day_of_year, noise)
        features ==
            IF Truthy(earth_engine_features)
            THEN MergeEarthEngine(base_features, earth_engine_features)
            ELSE SyntheticBands(base_features, noise)
    IN  IF features["red"] + features["nir"] > 0
        THEN [features EXCEPT !["vegetationIndex"] =
                 ((features["nir"] - features["red"]) * 1000)
                     \div (features["nir"] + features["red"])]
        ELSE features

\* extract_earth_engine_features.  Its except branch is not modelled: no
\* step of the try block raises for numeric values.
extract_earth_engine_features(latitude, longitude, earth_engine_features, day_of_year, noise) ==
    LET base_features ==
            extract_environmental_features(latitude, longitude, day_of_year, noise)
    IN  IF Truthy(earth_engine_features)
        THEN MergeEarthEngine(base_features, earth_engine_features)
        ELSE SyntheticBands(base_features, noise)

(***************************************************************************)
(* Model lifecycle                                                         *)
(*                                                                         *)
(* The file at model_path is "absent", or holds: "bundle_proba" (a trained *)
(* bundle whose classifier has predict_proba, thr 0.35), "bundle_decision" *)
(* (a bundle whose classifier has only decision_function, no thr),         *)
(* "bundle_placeholder" (what _train_minimal_model saves), "corrupt"       *)
(* (joblib.load or bundle['model'] raises), "bad_thr" (bundle['model'] is  *)
(* read, float(thr) raises).                                               *)
(*                                                                         *)
(* A model is [origin, kind]: origin is the code path that assigned        *)
(* self.model, kind is what the object can do: "proba31" a forest fitted   *)
(* on 31 features, "proba20" a forest fitted on 20, "opaque_proba" and     *)
(* "opaque_decision" the classifier of a trained bundle, "unfitted" a      *)
(* forest whose fit raised.                                                *)
(***************************************************************************)

DiskStates == {"absent", "bundle_proba", "bundle_decision",
               "bundle_placeholder", "corrupt", "bad_thr"}

None == [origin |-> "none", kind |-> "none"]

\* The fields __init__ sets before it calls _initialize_model; returned is
\* the value _initialize_model returns (__init__ discards it).
NewService ==
    [model |-> None, threshold |-> 500, is_initialized |-> FALSE,
     returned |-> FALSE]

\* n_features = 11 + (3-1)*5 + (3-1)*5
TrainNFeatures == 11 + (3 - 1) * 5 + (3 - 1) * 5

\* X_dummy = np.random.randn(100, 20)
FallbackNFeatures == 20

\* bundle['model']
BundleModel(disk) ==
    CASE disk = "bundle_proba" -> [origin |-> "artifact", kind |-> "opaque_proba"]
      [] disk = "bundle_decision" -> [origin |-> "artifact", kind |-> "opaque_decision"]
      [] disk = "bundle_placeholder" -> [origin |-> "artifact", kind |-> "proba31"]
      [] disk = "bad_thr" -> [origin |-> "artifact", kind |-> "opaque_proba"]

\* float(bundle.get('thr', 0.5))
BundleThreshold(disk) ==
    IF disk = "bundle_proba" THEN 350 ELSE 500

\* What the environment does to one initialisation: where placeholder
\* training raises ("fit": the import or the fit; "dump": joblib.dump), where
\* fallback creation raises ("import" or "fit"), and what a failed dump
\* leaves on disk.
InitEnvs ==
    [train_fails : {"no", "fit", "dump"},
     fallback_fails : {"no", "import", "fit"},
     partial_file : {"absent", "corrupt"}]

\* The environments of an initialisation that finds `disk`, one for each way
\* the initialisation can go: the choices it never consults are held at
\* their first value.
InitEnvsFor(disk) ==
    {env \in InitEnvs :
        /\ disk # "absent" => env.train_fails = "no"
        /\ env.train_fails # "dump" => env.partial_file = "absent"
        /\ disk \notin {"corrupt", "bad_thr"} => env.fallback_fails = "no"}

\* _create_fallback_model: [service, disk] after it.
_create_fallback_model(service, disk, env) ==
    IF env.fallback_fails = "import"
    THEN [service |-> [service EXCEPT !.returned = FALSE], disk |-> disk]
    ELSE IF env.fallback_fails = "fit"
    THEN [service |-> [service EXCEPT
                          !.model = [origin |-> "fallback", kind |-> "unfitted"],
                          !.returned = FALSE],
          disk |-> disk]
    ELSE [service |-> [model |-> [origin |-> "fallback", kind |-> "proba20"],
                       threshold |-> 500, is_initialized |-> TRUE,
                       returned |-> TRUE],
          disk |-> disk]

\* _train_minimal_model: [service, disk] after it.
_train_minimal_model(service, disk, env) ==
    LET trained == [service EXCEPT
                       !.model = [origin |-> "placeholder", kind |-> "proba31"],
                       !.threshold = 500,
                       !.is_initialized = TRUE]
    IN  IF env.train_fails = "fit"
        THEN [service |-> [service EXCEPT !.returned = FALSE], disk |-> disk]
        ELSE IF env.train_fails = "dump"
        THEN [service |-> [trained EXCEPT !.returned = FALSE],
              disk |-> env.partial_file]
        ELSE [service |-> [trained EXCEPT !.returned = TRUE],
              disk |-> "bundle_placeholder"]

\* _initialize_model: [service, disk] after it.
_initialize_model(service, disk, env) ==
    IF disk = "absent"
    THEN _train_minimal_model(service, disk, env)
    ELSE IF disk = "corrupt"
    THEN _create_fallback_model(service, disk, env)
    ELSE IF disk = "bad_thr"
    THEN _create_fallback_model([service EXCEPT !.model = BundleModel(disk)],
                                disk, env)
    ELSE [service |-> [model |-> BundleModel(disk),
                       threshold |-> BundleThreshold(disk),
                       is_initialized |-> TRUE, returned |-> TRUE],
          disk |-> disk]

\* FireRiskMLService(): [service, disk] after the constructor.
FireRiskMLService(disk, env) == _initialize_model(NewService, disk, env)

(***************************************************************************)
(* RiskScorer                                                              *)
(***************************************************************************)

\* The six factors of _heuristic_risk_calculation.
HeuristicFactors(features) ==
    [temp_factor |->
        Min(1000, Max(0, (Get(features, "temperature", 25000) - 15000) \div 30)),
     humidity_factor |->
        Max(0, Min(1000, (100000 - Get(features, "humidity", 50000)) \div 80)),
     wind_factor |-> Min(1000, Get(features, "windSpeed", 5000) \div 20),
     veg_factor |->
        Max(0, Min(1000,
            ((800 - Get(features, "vegetationIndex", 500)) * 1000) \div 800)),
     moisture_factor |->
        Max(0, Min(1000, (60000 - Get(features, "soilMoisture", 30000)) \div 60)),
     precip_factor |->
        Max(0, Min(1000, (5000 - Get(features, "precipitation", 0)) \div 5))]

\* _heuristic_risk_calculation: [riskScore, confidence].
_heuristic_risk_calculation(features, day_of_year) ==
    LET factors == HeuristicFactors(features)
        risk_score == Mul(250, factors.temp_factor)
                        + Mul(200, factors.humidity_factor)
                        + Mul(150, factors.wind_factor)
                        + Mul(150, factors.veg_factor)
                        + Mul(150, factors.moisture_factor)
                        + Mul(100, factors.precip_factor)
        seasonal_boost == Mul(100, 1000 + CosSeason(day_of_year))
    IN  [riskScore |-> Min(1000, risk_score + seasonal_boost), confidence |-> 750]

\* A fallback forest fitted on as many features as the placeholder.
NFeaturesInAsTrained(kind) == TrainNFeatures

\* The number of features a fitted forest expects.
NFeaturesIn(kind) ==
    IF kind = "proba20" THEN FallbackNFeatures ELSE TrainNFeatures

\* What the environment does to one inference: whether the call raises for
\* a reason of its own, and the probability (or the sigmoid of the decision
\* value) it yields otherwise.
ModelScores == {0, 249, 250, 499, 500, 749, 750, 1000}
InferOutcomes ==
    {[raises |-> FALSE, score |-> sc] : sc \in ModelScores}
        \cup {[raises |-> TRUE, score |-> 0]}

\* Whether predict_proba / decision_function raises: a forest refuses a
\* vector that has not the number of features it was fitted on.
InferenceRaises(model, feature_vector, infer) ==
    \/ infer.raises
    \/ /\ model.kind \in {"proba31", "proba20"}
       /\ Len(feature_vector) # NFeaturesIn(model.kind)

\* A scorer whose except branch answers a fixed default instead of the
\* heuristic.
CalculateScoreDefaultOnError(service, features, day_of_year, infer) ==
    LET heuristic == _heuristic_risk_calculation(features, day_of_year) IN
    IF ~service.is_initialized \/ service.model = None
    THEN [riskScore |-> heuristic.riskScore, confidence |-> heuristic.confidence,
          tier |-> "heuristic", model_raised |-> FALSE]
    ELSE IF InferenceRaises(service.model, _features_to_vector(features), infer)
    THEN [riskScore |-> 500, confidence |-> 500,
          tier |-> "heuristic", model_raised |-> TRUE]
    ELSE [riskScore |-> infer.score,
          confidence |-> Min(950, 600 + Mul(Mul(300, Abs(infer.score - 500)), 2000)),
          tier |-> "model", model_raised |-> FALSE]

\* calculate_fire_risk_score: [riskScore, confidence], with the path that
\* produced them (tier) and whether the model path raised.
calculate_fire_risk_score(service, features, day_of_year, infer) ==
    LET heuristic == _heuristic_risk_calculation(features, day_of_year) IN
    IF ~service.is_initialized \/ service.model = None
    THEN [riskScore |-> heuristic.riskScore, confidence |-> heuristic.confidence,
          tier |-> "heuristic", model_raised |-> FALSE]
    ELSE IF InferenceRaises(service.model, _features_to_vector(features), infer)
    THEN [riskScore |-> heuristic.riskScore, confidence |-> heuristic.confidence,
          tier |-> "heuristic", model_raised |-> TRUE]
    ELSE [riskScore |-> infer.score,
          confidence |-> Min(950, 600 + Mul(Mul(300, Abs(infer.score - 500)), 2000)),
          tier |-> "model", model_raised |-> FALSE]

\* Thresholds with exclusive lower bounds.
RiskLevelExclusive(risk_score) ==
    IF risk_score > 750 THEN "EXTREME"
    ELSE IF risk_score > 500 THEN "HIGH"
    ELSE IF risk_score > 250 THEN "MODERATE"
    ELSE "LOW"

\* Determine risk level.
RiskLevel(risk_score) ==
    IF risk_score >= 750 THEN "EXTREME"
    ELSE IF risk_score >= 500 THEN "HIGH"
    ELSE IF risk_score >= 250 THEN "MODERATE"
    ELSE "LOW"

(***************************************************************************)
(* Predictions                                                             *)
(*                                                                         *)
(* A location is [kind, latitude, longitude]: kind "ok" (both keys hold    *)
(* values float() accepts), "missing_key" or "non_numeric".  A call ends   *)
(* [outcome |-> "raised"] or with the dict it returns and outcome          *)
(* "returned".                                                             *)
(***************************************************************************)

Raised == [outcome |-> "raised"]

\* float(location['latitude']), float(location['longitude']) raise.
Malformed(location) == location.kind # "ok"

\* A predict_fire_risk whose except branch answers an error dict instead of
\* raising again.
PredictFireRiskSwallowing(service, location, day_of_year, noise, infer) ==
    IF Malformed(location)
    THEN [outcome |-> "returned", error |-> TRUE, riskScore |-> 200,
          riskLevel |-> "LOW", confidence |-> 500, source |-> "ErrorFallback"]
    ELSE
    LET latitude == location.latitude
        longitude == location.longitude
        features == extract_environmental_features(latitude, longitude,
                                                   day_of_year, noise)
        scored == calculate_fire_risk_score(service, features, day_of_year, infer)
    IN  [outcome |-> "returned",
         riskScore |-> scored.riskScore,
         riskLevel |-> RiskLevel(scored.riskScore),
         confidence |-> scored.confidence,
         features |-> features,
         region |-> detect_region_from_coordinates(latitude, longitude),
         latitude |-> latitude,
         longitude |-> longitude,
         modelVersion |-> "1.0",
         source |-> "ForestFireDetectorML",
         dataSource |-> "-",
         satelliteFeatures |-> FALSE,
         tier |-> scored.tier,
         model_raised |-> scored.model_raised]

\* FireRiskMLService.predict_fire_risk: the except branch logs and raises
\* again.
predict_fire_risk(service, location, day_of_year, noise, infer) ==
    IF Malformed(location) THEN Raised
    ELSE
    LET latitude == location.latitude
        longitude == location.longitude
        region == detect_region_from_coordinates(latitude, longitude)
        features == extract_environmental_features(latitude, longitude,
                                                   day_of_year, noise)
        scored == calculate_fire_risk_score(service, features, day_of_year, infer)
    IN  [outcome |-> "returned",
         riskScore |-> scored.riskScore,
         riskLevel |-> RiskLevel(scored.riskScore),
         confidence |-> scored.confidence,
         features |-> features,
         region |-> region,
         latitude |-> latitude,
         longitude |-> longitude,
         modelVersion |-> "1.0",
         source |-> "ForestFireDetectorML",
         dataSource |-> "-",
         satelliteFeatures |-> FALSE,
         tier |-> scored.tier,
         model_raised |-> scored.model_raised]

\* A prediction whose confidence boost has no cap.
PredictWithEarthEngineUncapped(service, location, earth_engine_features, day_of_year, noise, infer) ==
    IF Malformed(location)
    THEN predict_fire_risk(service, location, day_of_year, noise, infer)
    ELSE
    LET latitude == location.latitude
        longitude == location.longitude
        region == detect_region_from_coordinates(latitude, longitude)
        features == extract_earth_engine_features(latitude, longitude,
                        earth_engine_features, day_of_year, noise)
        scored == calculate_fire_risk_score(service, features, day_of_year, infer)
    IN  [outcome |-> "returned",
         riskScore |-> scored.riskScore,
         riskLevel |-> RiskLevel(scored.riskScore),
         confidence |-> IF Truthy(earth_engine_features)
                        THEN scored.confidence + 100
                        ELSE scored.confidence,
         features |-> features,
         region |-> region,
         latitude |-> latitude,
         longitude |-> longitude,
         modelVersion |-> "1.0-enhanced",
         source |-> IF Truthy(earth_engine_features)
                    THEN "ForestFireDetectorML+EarthEngine"
                    ELSE "ForestFireDetectorML+Synthetic",
         dataSource |-> IF Truthy(earth_engine_features)
                        THEN "EarthEngine" ELSE "Synthetic",
         satelliteFeatures |-> Truthy(earth_engine_features),
         tier |-> scored.tier,
         model_raised |-> scored.model_raised]

\* FireRiskMLService.predict_fire_risk_with_earth_engine: the except branch
\* falls back to predict_fire_risk(location).
predict_fire_risk_with_earth_engine(service, location, earth_engine_features, day_of_year, noise, infer) ==
    IF Malformed(location)
    THEN predict_fire_risk(service, location, day_of_year, noise, infer)
    ELSE
    LET latitude == location.latitude
        longitude == location.longitude
        region == detect_region_from_coordinates(latitude, longitude)
        features == extract_earth_engine_features(latitude, longitude,
                        earth_engine_features, day_of_year, noise)
        scored == calculate_fire_risk_score(service, features, day_of_year, infer)
    IN  [outcome |-> "returned",
         riskScore |-> scored.riskScore,
         riskLevel |-> RiskLevel(scored.riskScore),
         confidence |-> IF Truthy(earth_engine_features)
                        THEN Min(950, scored.confidence + 100)
                        ELSE scored.confidence,
         features |-> features,
         region |-> region,
         latitude |-> latitude,
         longitude |-> longitude,
         modelVersion |-> "1.0-enhanced",
         source |-> IF Truthy(earth_engine_features)
                    THEN "ForestFireDetectorML+EarthEngine"
                    ELSE "ForestFireDetectorML+Synthetic",
         dataSource |-> IF Truthy(earth_engine_features)
                        THEN "EarthEngine" ELSE "Synthetic",
         satelliteFeatures |-> Truthy(earth_engine_features),
         tier |-> scored.tier,
         model_raised |-> scored.model_raised]

\* The error_result of mlPredictionService.predict_fire_risk.
error_result ==
    [outcome |-> "returned", error |-> TRUE, riskScore |-> 200,
     riskLevel |-> "LOW", confidence |-> 500, source |-> "ErrorFallback"]

(***************************************************************************)
(* RiskMapAggregator                                                       *)
(*                                                                         *)
(* Bounds are [kind, north, south, east, west], kind "ok" or "missing_key" *)
(* (bounds['south'] raises).  What the environment does to the cells of    *)
(* one map is [fail_every, fail_at, model_fails]: the prediction of the    *)
(* k-th cell in row-major order (from 0) raises when fail_every > 0 and    *)
(* k % fail_every = fail_at; the inference of every cell raises when       *)
(* model_fails; a model that answers gives the k-th of MapScores, cycling. *)
(*                                                                         *)
(* The two loops of generate_risk_map are followed cell by cell; their     *)
(* variables are the frame [k, row, risk_grid, hotspots], k the number of  *)
(* cells done.                                                             *)
(***************************************************************************)

resolution == 20

\* np.linspace(start, stop, resolution)[i], i from 0.
Linspace(start, stop, i) == start + (i * (stop - start)) \div (resolution - 1)

\* Probabilities on and next to the hotspot threshold and the level
\* thresholds.
MapScores == <<0, 249, 250, 499, 500, 599, 600, 601, 749, 750, 1000>>

NoiseSeq == <<CHOOSE n \in NoiseProfiles : n.temperature = 0,
              CHOOSE n \in NoiseProfiles : n.temperature > 0,
              CHOOSE n \in NoiseProfiles : n.temperature < 0>>

\* Whether the prediction of cell (i, j) raises, i and j from 0.
CellRaises(env, i, j) ==
    env.fail_every > 0 /\ (i * resolution + j) % env.fail_every = env.fail_at

\* self.predict_fire_risk({'latitude': lat, 'longitude': lng}) for cell (i, j).
CellPrediction(service, bounds, day_of_year, env, i, j) ==
    IF CellRaises(env, i, j) THEN Raised
    ELSE predict_fire_risk(service,
            [kind |-> "ok",
             latitude |-> Linspace(bounds.south, bounds.north, i),
             longitude |-> Linspace(bounds.west, bounds.east, j)],
            day_of_year,
            NoiseSeq[((i + j) % Len(NoiseSeq)) + 1],
            [raises |-> env.model_fails,
             score |-> MapScores[((i * resolution + j) % Len(MapScores)) + 1]])

\* A hotspot test with an exclusive threshold.
IsHotspotExclusive(prediction) ==
    prediction.outcome = "returned" /\ prediction.riskScore > 600

\* if risk_score >= 0.6, reached only when the prediction returned.
IsHotspot(prediction) ==
    prediction.outcome = "returned" /\ prediction.riskScore >= 600

\* risk_grid = [], hotspots = [], before the first cell.
NewFrame == [k |-> 0, row |-> <<>>, risk_grid |-> <<>>, hotspots |-> <<>>]

\* A cell whose prediction raised leaves nothing in its row.
AfterCellSkippingErrors(frame, prediction) ==
    LET row == IF prediction.outcome = "raised" THEN frame.row
               ELSE Append(frame.row, prediction.riskScore)
        end_of_row == frame.k % resolution = resolution - 1
    IN  [k |-> frame.k + 1,
         row |-> IF end_of_row THEN <<>> ELSE row,
         risk_grid |-> IF end_of_row THEN Append(frame.risk_grid, row)
                       ELSE frame.risk_grid,
         hotspots |-> IF IsHotspot(prediction)
                      THEN Append(frame.hotspots,
                               [latitude |-> prediction.latitude,
                                longitude |-> prediction.longitude,
                                riskScore |-> prediction.riskScore,
                                riskLevel |-> prediction.riskLevel])
                      ELSE frame.hotspots]

\* One pass of the inner loop: the score, or 0.0 when the prediction raised,
\* is appended to the row, a hotspot is collected, and the row that the
\* cell completes is appended to the grid.
AfterCell(frame, prediction) ==
    LET row == Append(frame.row, IF prediction.outcome = "raised" THEN 0
                                 ELSE prediction.riskScore)
        end_of_row == frame.k % resolution = resolution - 1
    IN  [k |-> frame.k + 1,
         row |-> IF end_of_row THEN <<>> ELSE row,
         risk_grid |-> IF end_of_row THEN Append(frame.risk_grid, row)
                       ELSE frame.risk_grid,
         hotspots |-> IF IsHotspot(prediction)
                      THEN Append(frame.hotspots,
                               [latitude |-> prediction.latitude,
                                longitude |-> prediction.longitude,
                                riskScore |-> prediction.riskScore,
                                riskLevel |-> prediction.riskLevel])
                      ELSE frame.hotspots]

\* A statistics filter that keeps the zero scores.
InFlatGridWithZeros(score) == score >= 0

\* flat_grid keeps `score > 0`.
InFlatGrid(score) == score > 0

\* The sum of a sequence of numbers, by halves.
RECURSIVE Sum(_)
Sum(seq) ==
    IF Len(seq) = 0 THEN 0
    ELSE IF Len(seq) = 1 THEN seq[1]
    ELSE Sum(SubSeq(seq, 1, Len(seq) \div 2))
            + Sum(SubSeq(seq, (Len(seq) \div 2) + 1, Len(seq)))

\* np.max of a non-empty sequence.
MaxOf(seq) == CHOOSE x \in {seq[n] : n \in 1..Len(seq)} :
                  \A n \in 1..Len(seq) : seq[n] <= x

\* [score for row in risk_grid for score in row]
RECURSIVE Flatten(_)
Flatten(rows) == IF rows = <<>> THEN <<>> ELSE Head(rows) \o Flatten(Tail(rows))

\* The summary statistics and the dict generate_risk_map returns.
RiskMapResult(risk_grid, hotspots, bounds) ==
    LET flat_grid == SelectSeq(Flatten(risk_grid), InFlatGrid)
        Low(r) == r < 250
        Moderate(r) == 250 <= r /\ r < 500
        High(r) == 500 <= r /\ r < 750
        Extreme(r) == r >= 750
    IN  [outcome |-> "returned",
         riskGrid |-> risk_grid,
         dimensions |-> [width |-> resolution, height |-> resolution],
         summary |->
            [totalCells |-> resolution * resolution,
             riskDistribution |->
                IF flat_grid # <<>>
                THEN [LOW |-> Len(SelectSeq(flat_grid, Low)),
                      MODERATE |-> Len(SelectSeq(flat_grid, Moderate)),
                      HIGH |-> Len(SelectSeq(flat_grid, High)),
                      EXTREME |-> Len(SelectSeq(flat_grid, Extreme))]
                ELSE [LOW |-> 0, MODERATE |-> 0, HIGH |-> 0, EXTREME |-> 0],
             averageRisk |-> IF flat_grid # <<>>
                             THEN Sum(flat_grid) \div Len(flat_grid) ELSE 0,
             maxRisk |-> IF flat_grid # <<>> THEN MaxOf(flat_grid) ELSE 0,
             hotspotCount |-> Len(hotspots)],
         hotspots |-> hotspots,
         bounds |-> bounds]

\* A call that has not returned yet.
Running == [outcome |-> "running"]

(***************************************************************************)
(* The process: the import of realMLModelService builds the global         *)
(* ml_service; then the entry points are called.                           *)
(***************************************************************************)

NoResult == [op |-> "none"]

\* The other specifications leave the process here.
ServiceIdle ==
    /\ pc = "idle"
    /\ model_file = "absent"
    /\ ml_service = NewService
    /\ initCount = 0
    /\ startup = [disk |-> "absent"]
    /\ today = 100
    /\ result = NoResult

InitService ==
    /\ pc = "start"
    /\ model_file \in DiskStates
    /\ ml_service = NewService
    /\ initCount = 0
    /\ startup = [disk |-> model_file]
    /\ today \in DaysOfYear
    /\ result = NoResult
    /\ RegionIdle
    /\ VectorIdle

\* ml_service = FireRiskMLService(), at the import of the module.
Startup ==
    /\ pc = "start"
    /\ \E env \in InitEnvsFor(model_file) :
          LET built == FireRiskMLService(model_file, env) IN
          /\ ml_service' = built.service
          /\ model_file' = built.disk
          /\ startup' = [disk |-> model_file, env |-> env]
    /\ initCount' = initCount + 1
    /\ pc' = "ready"
    /\ UNCHANGED <<today, result, regionVars, vectorVars>>

\* ml_service.predict_fire_risk(location), also reached through the
\* module-level predict_fire_risk(latitude, longitude).
PredictFireRisk(locations, noises, infers) ==
    /\ pc = "ready"
    /\ \E location \in locations, noise \in noises, infer \in infers :
          result' = [op |-> "predict_fire_risk", location |-> location,
                     earth_engine_features |-> NoFeatures, infer |-> infer,
                     out |-> predict_fire_risk(ml_service, location,
                                               today, noise, infer)]
    /\ UNCHANGED <<pc, model_file, ml_service, initCount, startup, today,
                   regionVars, vectorVars>>

\* ml_service.predict_fire_risk_with_earth_engine(location, features), also
\* reached through predict_with_features.
PredictWithEarthEngine(locations, overlays, noises, infers) ==
    /\ pc = "ready"
    /\ \E location \in locations, ee \in overlays, noise \in noises,
          infer \in infers :
          result' = [op |-> "predict_fire_risk_with_earth_engine",
                     location |-> location, earth_engine_features |-> ee,
                     infer |-> infer,
                     out |-> predict_fire_risk_with_earth_engine(ml_service,
                                 location, ee, today, noise, infer)]
    /\ UNCHANGED <<pc, model_file, ml_service, initCount, startup, today,
                   regionVars, vectorVars>>

\* ml_service.calculate_fire_risk_score(features).
CalculateFireRiskScore(featureSets, infers) ==
    /\ pc = "ready"
    /\ \E features \in featureSets, infer \in infers :
          result' = [op |-> "calculate_fire_risk_score", features |-> features,
                     infer |-> infer,
                     out |-> [outcome |-> "returned"] @@
                             calculate_fire_risk_score(ml_service, features,
                                                       today, infer)]
    /\ UNCHANGED <<pc, model_file, ml_service, initCount, startup, today,
                   regionVars, vectorVars>>

MaxInits == 3

\* mlPredictionService.predict_fire_risk(latitude, longitude): builds a
\* service of its own, predicts without an overlay, and answers the JSON of
\* the prediction or, when anything raised, of error_result.  The import of
\* realMLModelService has built ml_service before.
MlPredictionService(locations, noises, infers) ==
    /\ pc = "ready"
    /\ initCount < MaxInits
    /\ \E location \in locations, noise \in noises, infer \in infers,
          env \in InitEnvsFor(model_file) :
          LET built == FireRiskMLService(model_file, env)
              prediction == predict_fire_risk_with_earth_engine(built.service,
                                location, NoFeatures, today, noise, infer)
          IN  /\ location.kind # "missing_key"
              /\ model_file' = built.disk
              /\ result' = [op |-> "mlPredictionService.predict_fire_risk",
                            location |-> location,
                            earth_engine_features |-> NoFeatures,
                            infer |-> infer,
                            service |-> built.service,
                            out |-> IF prediction.outcome = "raised"
                                    THEN error_result ELSE prediction]
    /\ initCount' = initCount + 1
    /\ UNCHANGED <<pc, ml_service, startup, today, regionVars, vectorVars>>

\* ml_service.generate_risk_map(bounds), also reached through
\* generate_fire_risk_map.
GenerateRiskMap(boundsSet, envs) ==
    /\ pc = "ready"
    /\ \E bounds \in boundsSet, env \in envs :
          result' = [op |-> "generate_risk_map", bounds |-> bounds, env |-> env,
                     frame |-> NewFrame,
                     out |-> IF bounds.kind = "ok" THEN Running ELSE Raised]
    /\ UNCHANGED <<pc, model_file, ml_service, initCount, startup, today,
                   regionVars, vectorVars>>

\* The next cell of the grid.
RiskMapCell ==
    /\ result.op = "generate_risk_map"
    /\ result.out = Running
    /\ result.frame.k < resolution * resolution
    /\ result' = [result EXCEPT !.frame =
                     AfterCell(@, CellPrediction(ml_service, result.bounds, today,
                                   result.env, result.frame.k \div resolution,
                                   result.frame.k % resolution))]
    /\ UNCHANGED <<pc, model_file, ml_service, initCount, startup, today,
                   regionVars, vectorVars>>

\* After the last cell: the summary statistics and the return.
RiskMapReturn ==
    /\ result.op = "generate_risk_map"
    /\ result.out = Running
    /\ result.frame.k = resolution * resolution
    /\ result' = [result EXCEPT !.out =
                     RiskMapResult(result.frame.risk_grid, result.frame.hotspots,
                                   result.bounds)]
    /\ UNCHANGED <<pc, model_file, ml_service, initCount, startup, today,
                   regionVars, vectorVars>>

\* Locations: the self-test's (28.6, 77.2), a point of Uttarakhand, a point
\* outside every box, and the two ways a location is malformed.
Locations == {
    [kind |-> "ok", latitude |-> 286, longitude |-> 772],
    [kind |-> "ok", latitude |-> 300, longitude |-> 790],
    [kind |-> "ok", latitude |-> 0, longitude |-> 0],
    [kind |-> "missing_key", latitude |-> 0, longitude |-> 0],
    [kind |-> "non_numeric", latitude |-> 0, longitude |-> 0] }

\* External feature mappings: None, the empty dict, and five overlays: two
\* bands only, dark bands with a vegetation index of their own, values
\* outside the documented ranges, an index that the bands contradict, and
\* bands outside [0, 1].
Overlays == {
    NoFeatures,
    [key \in {} |-> 0],
    [red |-> 300, nir |-> 600],
    [temperature |-> 60000, vegetationIndex |-> 900, red |-> 0, nir |-> 0],
    [humidity |-> 5000, windSpeed |-> -5000, blue |-> 1500, modisNdvi |-> 100],
    [vegetationIndex |-> 900, red |-> 600, nir |-> 300],
    [red |-> -200, nir |-> 1500, vegetationIndex |-> 100, elevation |-> -50000,
     slope |-> 90000, soilMoisture |-> 150000, precipitation |-> -1000] }

\* Feature mappings handed to the scorer directly.
ScorerInputs ==
    {[key \in held |-> profile[key]] :
        held \in {BaseKeys, {}, {"temperature", "humidity"},
                  {"windSpeed", "elevation", "precipitation"}},
        profile \in VectorProfiles}

\* One call of one entry point, with every input of the sets above.
NextPredict ==
    \/ Startup
    \/ result = NoResult /\ PredictFireRisk(Locations, NoiseProfiles, InferOutcomes)
    \/ result = NoResult /\ PredictWithEarthEngine(Locations, Overlays, NoiseProfiles, InferOutcomes)
    \/ result = NoResult /\ CalculateFireRiskScore(ScorerInputs, InferOutcomes)
    \/ result = NoResult /\ MlPredictionService(Locations, NoiseProfiles, InferOutcomes)

SpecPredict == InitService /\ [][NextPredict]_vars

PredictOps == {"predict_fire_risk", "predict_fire_risk_with_earth_engine"}

C2_ScorerFallsBackToHeuristic ==
    /\ result.op = "calculate_fire_risk_score" =>
          /\ result.out.outcome = "returned"
          /\ (\/ result.infer.raises
              \/ result.out.model_raised
              \/ ~ml_service.is_initialized
              \/ ml_service.model = None) =>
                /\ result.out.riskScore =
                      _heuristic_risk_calculation(result.features, today).riskScore
                /\ result.out.confidence =
                      _heuristic_risk_calculation(result.features, today).confidence
    /\ (result.op \in PredictOps /\ result.out.outcome = "returned"
            /\ result.out.model_raised) =>
          result.out.riskScore =
              _heuristic_risk_calculation(result.out.features, today).riskScore

\* The scorer has been called on a service trained from an artifact and the
\* model path has raised.
C2_Witness ==
    /\ result.op = "calculate_fire_risk_score"
    /\ ml_service.is_initialized
    /\ ml_service.model.origin = "artifact"
    /\ result.out.model_raised

\* The services a process can hold after an initialisation.
ReachableServices ==
    {FireRiskMLService(d, env).service : d \in DiskStates, env \in InitEnvs}

\* Every prediction the two methods can return.
ReachablePredictions ==
    {p \in {predict_fire_risk_with_earth_engine(service, location, ee, day, noise, infer) :
                service \in ReachableServices, location \in Locations,
                ee \in Overlays, day \in DaysOfYear, noise \in NoiseProfiles,
                infer \in InferOutcomes}
            \cup {predict_fire_risk(service, location, day, noise, infer) :
                service \in ReachableServices, location \in Locations,
                day \in DaysOfYear, noise \in NoiseProfiles,
                infer \in InferOutcomes} :
        p.outcome = "returned"}

\* The tags the service gives to predictions whose score the model produced,
\* and to predictions made without a satellite overlay.
ModelTags == {p.source : p \in {q \in ReachablePredictions : q.tier = "model"}}
SyntheticTags ==
    {p.source : p \in {q \in ReachablePredictions : ~q.satelliteFeatures}}

\* C5 as claimed: the source tag identifies the tier: a prediction whose
\* score the heuristic produced carries none of the tags of model-produced
\* predictions, and a satellite-enhanced prediction none of the tags of
\* synthetic-only ones.
C5_TagIdentifiesTier ==
    (result.op \in PredictOps /\ result.out.outcome = "returned") =>
        /\ result.out.tier = "heuristic" => result.out.source \notin ModelTags
        /\ result.out.satelliteFeatures => result.out.source \notin SyntheticTags

\* C8: the risk level of every prediction returned follows from its score
\* with inclusive lower bounds 0.75, 0.5 and 0.25.
C8_RiskLevelThresholds ==
    (result.op \in PredictOps /\ result.out.outcome = "returned") =>
        LET score == result.out.riskScore
            level == result.out.riskLevel
        IN  /\ score >= 750 => level = "EXTREME"
            /\ (500 <= score /\ score < 750) => level = "HIGH"
            /\ (250 <= score /\ score < 500) => level = "MODERATE"
            /\ score < 250 => level = "LOW"
            /\ level \in {"LOW", "MODERATE", "HIGH", "EXTREME"}

\* A prediction whose score is exactly 0.75.
C8_Witness ==
    /\ result.op \in PredictOps
    /\ result.out.outcome = "returned"
    /\ result.out.riskScore = 750
    /\ result.out.riskLevel = "EXTREME"

\* The same call without the overlay, for an inference that raises or not as
\* in the call made.
PredictionsWithoutOverlay ==
    {predict_fire_risk_with_earth_engine(ml_service, result.location, NoFeatures,
                                         today, noise, infer) :
        noise \in NoiseProfiles,
        infer \in {i \in InferOutcomes : i.raises = result.infer.raises}}

\* C15 as claimed: for the same location and model state the confidence of
\* the prediction with a non-empty overlay is at least that of the prediction
\* without it, and at most 0.95.
C15_OverlayNeverLowersConfidence ==
    (result.op = "predict_fire_risk_with_earth_engine"
        /\ result.out.outcome = "returned"
        /\ Truthy(result.earth_engine_features)) =>
        /\ result.out.confidence <= 950
        /\ \A twin \in PredictionsWithoutOverlay :
              result.out.confidence >= twin.confidence

\* C15 as amended: the confidence is the scorer's confidence for the merged
\* features plus 0.1 capped at 0.95 with a non-empty overlay, and the
\* scorer's own without; so it is at least the confidence of the same call
\* without the overlay whenever the inference yields the same for both
\* feature sets, and never above 0.95.
C15_BoostOverScorerConfidence ==
    (result.op = "predict_fire_risk_with_earth_engine"
        /\ result.out.outcome = "returned") =>
        LET scored == calculate_fire_risk_score(ml_service, result.out.features,
                                                today, result.infer)
        IN  /\ result.out.confidence <= 950
            /\ Truthy(result.earth_engine_features) =>
                  /\ result.out.confidence = Min(950, scored.confidence + 100)
                  /\ result.out.confidence >= scored.confidence
                  /\ \A noise \in NoiseProfiles :
                        result.out.confidence >=
                            predict_fire_risk_with_earth_engine(ml_service,
                                result.location, NoFeatures, today, noise,
                                result.infer).confidence
            /\ ~Truthy(result.earth_engine_features) =>
                  result.out.confidence = scored.confidence

\* A model-scored prediction with an overlay whose boost met the cap.
C15_Witness ==
    /\ result.op = "predict_fire_risk_with_earth_engine"
    /\ result.out.outcome = "returned"
    /\ Truthy(result.earth_engine_features)
    /\ result.out.tier = "model"
    /\ result.out.riskScore = 1000
    /\ result.out.confidence = 950

\* The model that _create_fallback_model leaves after a successful fit.
FallbackModel == [origin |-> "fallback", kind |-> "proba20"]

\* C21: with the model of _create_fallback_model, fitted on 20 features, the
\* inference on the 31-element vector raises for every feature set, so
\* calculate_fire_risk_score returns the heuristic's score with confidence
\* 0.75 and every prediction carries the heuristic's score; a score produced
\* by the model is returned only by an initialised service whose model was
\* loaded from the artifact or trained as the 31-feature placeholder.
C21_FallbackModelNeverScores ==
    /\ (result.op = "calculate_fire_risk_score" /\ ml_service.model = FallbackModel) =>
          /\ Len(_features_to_vector(result.features)) = 31
          /\ result.out.tier = "heuristic"
          /\ result.out.riskScore =
                _heuristic_risk_calculation(result.features, today).riskScore
          /\ result.out.confidence = 750
    /\ (result.op \in PredictOps /\ result.out.outcome = "returned"
            /\ ml_service.model = FallbackModel) =>
          /\ result.out.tier = "heuristic"
          /\ result.out.riskScore =
                _heuristic_risk_calculation(result.out.features, today).riskScore
    /\ (result.op \in PredictOps \cup {"calculate_fire_risk_score"}
            /\ result.out.outcome = "returned" /\ result.out.tier = "model") =>
          /\ ml_service.is_initialized
          /\ ml_service.model.origin \in {"artifact", "placeholder"}
          /\ ml_service.model.kind \in {"proba31", "opaque_proba", "opaque_decision"}

\* The scorer has been called on an initialised service that holds the
\* fallback model, with an inference that would not raise for a reason of
\* its own and a probability other than the heuristic's score: the model
\* path raised and the heuristic answered.
C21_Witness ==
    /\ result.op = "calculate_fire_risk_score"
    /\ ml_service.is_initialized
    /\ ml_service.model = FallbackModel
    /\ ~result.infer.raises
    /\ result.infer.score # result.out.riskScore
    /\ result.out.model_raised
    /\ result.out.confidence = 750

\* C22: predict_fire_risk_with_earth_engine treats a mapping that is present
\* but empty exactly like an absent one: the result is one the call returns
\* for None, the bands are the synthetic ones, modisNdvi and vegetationIndex
\* are the baseline's index, the confidence is the scorer's without boost, and
\* the tags are 'ForestFireDetectorML+Synthetic', 'Synthetic' and false; the
\* boost and the EarthEngine tags are applied exactly when the mapping has at
\* least one key.
C22_EmptyMappingIsAbsent ==
    (result.op = "predict_fire_risk_with_earth_engine"
        /\ result.out.outcome = "returned") =>
        LET mapping == result.earth_engine_features
            has_key == mapping # NoFeatures /\ DOMAIN mapping # {}
            out == result.out
            scored == calculate_fire_risk_score(ml_service, out.features, today,
                                                result.infer)
        IN  /\ mapping = [key \in {} |-> 0] =>
                  /\ \E noise \in NoiseProfiles :
                        /\ out = predict_fire_risk_with_earth_engine(ml_service,
                                    result.location, NoFeatures, today, noise,
                                    result.infer)
                        /\ LET base_features == extract_environmental_features(
                                    out.latitude, out.longitude, today, noise)
                           IN  /\ out.features.vegetationIndex
                                      = base_features.vegetationIndex
                               /\ out.features.modisNdvi
                                      = base_features.vegetationIndex
                               /\ \A n \in 1..Len(spectral_bands) :
                                     out.features[spectral_bands[n]] =
                                         SyntheticBands(base_features, noise)
                                             [spectral_bands[n]]
                  /\ out.confidence = scored.confidence
                  /\ out.source = "ForestFireDetectorML+Synthetic"
                  /\ out.dataSource = "Synthetic"
                  /\ out.satelliteFeatures = FALSE
            /\ has_key <=> out.source = "ForestFireDetectorML+EarthEngine"
            /\ has_key <=> out.dataSource = "EarthEngine"
            /\ has_key <=> out.satelliteFeatures
            /\ ~has_key <=> out.source = "ForestFireDetectorML+Synthetic"
            /\ out.confidence = IF has_key THEN Min(950, scored.confidence + 100)
                                ELSE scored.confidence

\* A call with the empty mapping has returned a model-scored prediction
\* tagged as synthetic, whose confidence is the scorer's, below the cap.
C22_Witness ==
    /\ result.op = "predict_fire_risk_with_earth_engine"
    /\ result.earth_engine_features = [key \in {} |-> 0]
    /\ result.out.outcome = "returned"
    /\ result.out.tier = "model"
    /\ result.out.confidence = 600
    /\ result.out.source = "ForestFireDetectorML+Synthetic"
    /\ ~result.out.satelliteFeatures

(***************************************************************************)
(* Feature extraction and the heuristic, called on their own.              *)
(***************************************************************************)

InitFeatures ==
    /\ pc = "idle"
    /\ model_file = "absent"
    /\ ml_service = NewService
    /\ initCount = 0
    /\ startup = [disk |-> "absent"]
    /\ today \in DaysOfYear
    /\ result = NoResult
    /\ RegionIdle
    /\ VectorIdle

\* extract_environmental_features(latitude, longitude).
ExtractEnvironmentalFeatures(locations, noises) ==
    /\ pc = "idle"
    /\ \E location \in locations, noise \in noises :
          LET features == extract_environmental_features(location.latitude,
                              location.longitude, today, noise)
          IN  result' = [op |-> "extract_environmental_features",
                         location |-> location,
                         earth_engine_features |-> NoFeatures,
                         base_features |-> features, out |-> features]
    /\ UNCHANGED <<pc, model_file, ml_service, initCount, startup, today,
                   regionVars, vectorVars>>

\* extract_earth_engine_features(latitude, longitude, earth_engine_features);
\* base_features is the baseline the call synthesized.
ExtractEarthEngineFeatures(locations, overlays, noises) ==
    /\ pc = "idle"
    /\ \E location \in locations, ee \in overlays, noise \in noises :
          result' = [op |-> "extract_earth_engine_features",
                     location |-> location, earth_engine_features |-> ee,
                     base_features |-> extract_environmental_features(
                         location.latitude, location.longitude, today, noise),
                     out |-> extract_earth_engine_features(location.latitude,
                                 location.longitude, ee, today, noise)]
    /\ UNCHANGED <<pc, model_file, ml_service, initCount, startup, today,
                   regionVars, vectorVars>>

\* _heuristic_risk_calculation(features).
HeuristicRiskCalculation(featureSets) ==
    /\ pc = "idle"
    /\ \E features \in featureSets :
          result' = [op |-> "_heuristic_risk_calculation", features |-> features,
                     out |-> _heuristic_risk_calculation(features, today)]
    /\ UNCHANGED <<pc, model_file, ml_service, initCount, startup, today,
                   regionVars, vectorVars>>

\* Locations whose coordinates are numbers.
NumericLocations == {l \in Locations : l.kind = "ok"}

\* Feature mappings handed to the heuristic: those of the scorer, the
\* features every extraction of the model returns for the self-test
\* location, and a mapping outside the documented ranges.
HeuristicInputs ==
    ScorerInputs
        \cup {extract_earth_engine_features(286, 772, ee, day, noise) :
                ee \in Overlays, day \in DaysOfYear, noise \in NoiseProfiles}
        \cup {[windSpeed |-> -200000, temperature |-> 90000, humidity |-> 0]}

NextFeatures ==
    \/ result = NoResult /\ ExtractEnvironmentalFeatures(NumericLocations, NoiseProfiles)
    \/ result = NoResult /\ ExtractEarthEngineFeatures(NumericLocations, Overlays, NoiseProfiles)
    \/ result = NoResult /\ HeuristicRiskCalculation(HeuristicInputs)

SpecFeatures == InitFeatures /\ [][NextFeatures]_vars

\* (nir - red) / (nir + red), in thousandths.
Ndvi(red, nir) == ((nir - red) * 1000) \div (nir + red)

\* max(0.0, min(1.0, x))
Clamp01(x) == Max(0, Min(1000, x))

\* C11: with a non-empty external mapping the merged result holds
\* ndvi_calculated, which is (nir - red)/(nir + red) of the clamped bands
\* when their sum is positive and otherwise the vegetationIndex present
\* before the computation (the supplied one, else the baseline's); the merged
\* vegetationIndex equals ndvi_calculated.
C11_MergedNdvi ==
    (result.op = "extract_earth_engine_features"
        /\ Truthy(result.earth_engine_features)) =>
        LET ee == result.earth_engine_features
            red == Clamp01(Get(ee, "red", 250))
            nir == Clamp01(Get(ee, "nir", 500))
            before == Get(ee, "vegetationIndex",
                          result.base_features["vegetationIndex"])
        IN  /\ "ndvi_calculated" \in DOMAIN result.out
            /\ result.out["red"] = red
            /\ result.out["nir"] = nir
            /\ nir + red > 0 => result.out["ndvi_calculated"] = Ndvi(red, nir)
            /\ nir + red <= 0 => result.out["ndvi_calculated"] = before
            /\ result.out["vegetationIndex"] = result.out["ndvi_calculated"]

\* red = 0.3 and nir = 0.6 have been merged: the vegetation index is 1/3.
C11_Witness ==
    /\ result.op = "extract_earth_engine_features"
    /\ result.earth_engine_features = [red |-> 300, nir |-> 600]
    /\ result.out["ndvi_calculated"] = 333
    /\ result.out["vegetationIndex"] = 333
    /\ result.base_features["vegetationIndex"] # 333

\* C12 as claimed: in every FeatureSet extract_earth_engine_features returns,
\* with or without an external mapping, red and nir with a positive sum
\* determine vegetationIndex = (nir - red)/(nir + red).
C12_SpectralNdviAuthoritative ==
    (result.op = "extract_earth_engine_features"
        /\ {"red", "nir"} \subseteq DOMAIN result.out
        /\ result.out["red"] + result.out["nir"] > 0) =>
        result.out["vegetationIndex"] = Ndvi(result.out["red"], result.out["nir"])

\* C12 as amended: with a non-empty external mapping, red and nir with a
\* positive sum determine vegetationIndex; with no mapping or an empty one
\* the synthetic bands are added, no NDVI is computed from them and
\* vegetationIndex stays the baseline's.
C12_SpectralNdviWithMapping ==
    result.op = "extract_earth_engine_features" =>
        /\ (Truthy(result.earth_engine_features)
                /\ result.out["red"] + result.out["nir"] > 0) =>
              result.out["vegetationIndex"] =
                  Ndvi(result.out["red"], result.out["nir"])
        /\ ~Truthy(result.earth_engine_features) =>
              /\ {"red", "nir"} \subseteq DOMAIN result.out
              /\ "ndvi_calculated" \notin DOMAIN result.out
              /\ result.out["vegetationIndex"] =
                     result.base_features["vegetationIndex"]

\* Synthetic bands with a positive sum next to a vegetation index that is
\* not their NDVI.
C12_Witness ==
    /\ result.op = "extract_earth_engine_features"
    /\ ~Truthy(result.earth_engine_features)
    /\ result.out["red"] + result.out["nir"] > 0
    /\ result.out["vegetationIndex"] # Ndvi(result.out["red"], result.out["nir"])

\* The documented range of each clamped field a mapping holds.
InDocumentedRanges(features) ==
    LET Within(key, low, high) ==
            key \in DOMAIN features => (low <= features[key] /\ features[key] <= high)
        AtLeast(key, low) == key \in DOMAIN features => low <= features[key]
    IN  /\ Within("temperature", -10000, 50000)
        /\ Within("humidity", 10000, 100000)
        /\ Within("windSpeed", 0, 30000)
        /\ AtLeast("precipitation", 0)
        /\ Within("vegetationIndex", -1000, 1000)
        /\ Within("soilMoisture", 0, 100000)
        /\ Within("landUse", 0, 100000)
        /\ Within("hillshade", 0, 255000)
        /\ Within("slope", 0, 45000)
        /\ AtLeast("elevation", 0)
        /\ \A n \in 1..Len(spectral_bands) : Within(spectral_bands[n], 0, 1000)

\* C13 as claimed: every FeatureSet the two extractions return has each
\* clamped field inside its documented range, whatever the external mapping.
C13_FeaturesInRange ==
    result.op \in {"extract_environmental_features",
                   "extract_earth_engine_features"} =>
        InDocumentedRanges(result.out)

\* C14 as claimed: the six factors of the heuristic lie in [0, 1], its score
\* lies in [0, 1] and its confidence is 0.75, for every feature mapping.
C14_HeuristicBounded ==
    result.op = "_heuristic_risk_calculation" =>
        LET factors == HeuristicFactors(result.features) IN
        /\ \A name \in DOMAIN factors : 0 <= factors[name] /\ factors[name] <= 1000
        /\ 0 <= result.out.riskScore
        /\ result.out.riskScore <= 1000
        /\ result.out.confidence = 750

(***************************************************************************)
(* Risk maps: the process starts, then one map is generated.               *)
(***************************************************************************)

\* Bounds whose grid points fall on tenths of a degree (a span of 1.9
\* degrees), a span with south above north, a single point, and bounds
\* without a key.
MapBounds == {
    [kind |-> "ok", north |-> 299, south |-> 280, east |-> 789, west |-> 770],
    [kind |-> "ok", north |-> 100, south |-> 138, east |-> 770, west |-> 751],
    [kind |-> "ok", north |-> 286, south |-> 286, east |-> 772, west |-> 772],
    [kind |-> "missing_key", north |-> 0, south |-> 0, east |-> 0, west |-> 0] }

\* No cell raises; every seventh cell raises; the first cell of every row
\* raises; every cell raises; no cell raises and the model fails.
MapEnvs == {
    [fail_every |-> 0, fail_at |-> 0, model_fails |-> FALSE],
    [fail_every |-> 7, fail_at |-> 3, model_fails |-> FALSE],
    [fail_every |-> resolution, fail_at |-> 0, model_fails |-> FALSE],
    [fail_every |-> 1, fail_at |-> 0, model_fails |-> FALSE],
    [fail_every |-> 0, fail_at |-> 0, model_fails |-> TRUE] }

NextMap ==
    \/ Startup
    \/ result = NoResult /\ GenerateRiskMap(MapBounds, MapEnvs)
    \/ RiskMapCell
    \/ RiskMapReturn

\* The process of a map starts with no model file or with a trained bundle.
InitMap ==
    /\ InitService
    /\ model_file \in {"absent", "bundle_proba"}
    /\ today = 191

SpecMap == InitMap /\ [][NextMap]_vars

\* The cells in row-major order, [i, j] from 1.
RowMajor ==
    [k \in 1..400 |-> [i |-> ((k - 1) \div 20) + 1, j |-> ((k - 1) % 20) + 1]]

\* The sum of the positive scores among the first n of a row, and of the
\* first m rows of a grid.
RECURSIVE PositiveRowTotal(_, _)
PositiveRowTotal(row, n) ==
    IF n = 0 THEN 0
    ELSE (IF row[n] > 0 THEN row[n] ELSE 0) + PositiveRowTotal(row, n - 1)

RECURSIVE PositiveTotal(_, _)
PositiveTotal(grid, m) ==
    IF m = 0 THEN 0
    ELSE PositiveRowTotal(grid[m], 20) + PositiveTotal(grid, m - 1)

\* generate_risk_map has returned.
MapReturned == result.op = "generate_risk_map" /\ result.out.outcome = "returned"

\* C16: generate_risk_map with well-formed bounds does not raise, whichever
\* cells raise; the grid it returns has 20 rows of 20 scores, the dimensions
\* are 20 by 20 and totalCells is 400; the cell of row i and column j holds
\* 0.0 when its prediction raised and otherwise the score predicted for the
\* i-th latitude from south and the j-th longitude from west.
C16_GridComplete ==
    result.op = "generate_risk_map" =>
        /\ result.bounds.kind = "ok" => result.out.outcome # "raised"
        /\ result.out.outcome = "returned" =>
              /\ Len(result.out.riskGrid) = 20
              /\ \A i \in 1..20 : Len(result.out.riskGrid[i]) = 20
              /\ result.out.dimensions = [width |-> 20, height |-> 20]
              /\ result.out.summary.totalCells = 400
              /\ \A i \in 0..19, j \in 0..19 :
                    result.out.riskGrid[i + 1][j + 1] =
                        IF CellRaises(result.env, i, j) THEN 0
                        ELSE predict_fire_risk(ml_service,
                                [kind |-> "ok",
                                 latitude |-> result.bounds.south
                                     + (i * (result.bounds.north
                                             - result.bounds.south)) \div 19,
                                 longitude |-> result.bounds.west
                                     + (j * (result.bounds.east
                                             - result.bounds.west)) \div 19],
                                today,
                                NoiseSeq[((i + j) % 3) + 1],
                                [raises |-> result.env.model_fails,
                                 score |-> MapScores[((i * 20 + j) % 11) + 1]]
                             ).riskScore

\* A map has returned in which every seventh cell raised: the fourth cell of
\* the first row holds 0.0, the cells after it and the last row are computed.
C16_Witness ==
    /\ MapReturned
    /\ result.env.fail_every = 7
    /\ result.out.riskGrid[1][4] = 0
    /\ result.out.riskGrid[1][5] > 0
    /\ result.out.riskGrid[20][20] > 0

\* C17: the hotspots are, in row-major order, exactly the cells of the grid
\* whose score is >= 0.6, each with its coordinates, score and level;
\* hotspotCount is their number; no cell whose prediction raised is one.
C17_HotspotsExact ==
    MapReturned =>
        LET IsHotCell(cell) == result.out.riskGrid[cell.i][cell.j] >= 600
            hot_cells == SelectSeq(RowMajor, IsHotCell)
        IN  /\ Len(result.out.hotspots) = Len(hot_cells)
            /\ result.out.summary.hotspotCount = Len(result.out.hotspots)
            /\ \A n \in 1..Len(result.out.hotspots) :
                  LET cell == SelectSeq(RowMajor, IsHotCell)[n]
                      hotspot == result.out.hotspots[n]
                  IN  /\ hotspot.riskScore = result.out.riskGrid[cell.i][cell.j]
                      /\ hotspot.latitude = result.bounds.south
                            + ((cell.i - 1) * (result.bounds.north
                                               - result.bounds.south)) \div 19
                      /\ hotspot.longitude = result.bounds.west
                            + ((cell.j - 1) * (result.bounds.east
                                               - result.bounds.west)) \div 19
                      /\ hotspot.riskLevel \in {"HIGH", "EXTREME"}
                      /\ ~CellRaises(result.env, cell.i - 1, cell.j - 1)

\* A map with cells that raised, a hotspot whose score is exactly 0.6, and a
\* cell just below the threshold.
C17_Witness ==
    /\ MapReturned
    /\ result.env.fail_every = 7
    /\ \E n \in 1..Len(result.out.hotspots) : result.out.hotspots[n].riskScore = 600
    /\ \E i \in 1..20, j \in 1..20 : result.out.riskGrid[i][j] = 599
    /\ result.out.summary.hotspotCount < 400

\* C18: averageRisk, maxRisk and the four counts of riskDistribution are
\* taken over the cells with a score > 0: the counts sum to the number of
\* these cells, a cell whose prediction raised holds 0.0 and is left out, and
\* with no positive cell all of them are 0.
C18_StatsOverPositiveCells ==
    MapReturned =>
        LET grid == result.out.riskGrid
            summary == result.out.summary
            Cells == {c \in (1..20) \X (1..20) : grid[c[1]][c[2]] > 0}
            Between(low, high) ==
                Cardinality({c \in (1..20) \X (1..20) :
                    grid[c[1]][c[2]] > 0 /\ low <= grid[c[1]][c[2]]
                        /\ grid[c[1]][c[2]] < high})
        IN  /\ summary.riskDistribution.LOW + summary.riskDistribution.MODERATE
                  + summary.riskDistribution.HIGH
                  + summary.riskDistribution.EXTREME = Cardinality(Cells)
            /\ summary.riskDistribution.LOW = Between(0, 250)
            /\ summary.riskDistribution.MODERATE = Between(250, 500)
            /\ summary.riskDistribution.HIGH = Between(500, 750)
            /\ summary.riskDistribution.EXTREME = Between(750, 1000000)
            /\ \A i \in 0..19, j \in 0..19 :
                  CellRaises(result.env, i, j) => <<i + 1, j + 1>> \notin Cells
            /\ Cells # {} =>
                  /\ summary.averageRisk =
                        PositiveTotal(result.out.riskGrid, 20) \div Cardinality(Cells)
                  /\ \E c \in Cells : summary.maxRisk = grid[c[1]][c[2]]
                  /\ \A c \in Cells : grid[c[1]][c[2]] <= summary.maxRisk
            /\ Cells = {} =>
                  /\ summary.averageRisk = 0
                  /\ summary.maxRisk = 0
                  /\ summary.riskDistribution =
                        [LOW |-> 0, MODERATE |-> 0, HIGH |-> 0, EXTREME |-> 0]

\* A map in which some cells raised and the others are positive: the counts
\* sum to less than totalCells.
C18_Witness ==
    /\ MapReturned
    /\ result.env.fail_every = 7
    /\ result.out.summary.riskDistribution.LOW
          + result.out.summary.riskDistribution.MODERATE
          + result.out.summary.riskDistribution.HIGH
          + result.out.summary.riskDistribution.EXTREME \in 1..399
    /\ result.out.summary.maxRisk > 0

(***************************************************************************)
(* Process lifetime: any sequence of calls of the entry points.            *)
(***************************************************************************)

\* The inputs of the calls of a lifetime: a well-formed and a malformed
\* location, the draw without noise, an inference that raises and one that
\* yields 0.75, no overlay and one overlay.
LifetimeLocations == {l \in Locations : l.latitude = 286 \/ l.kind = "non_numeric"}
LifetimeNoises == {n \in NoiseProfiles : n.temperature = 0}
LifetimeInfers == {i \in InferOutcomes : i.raises \/ i.score = 750}
LifetimeOverlays == {NoFeatures, [red |-> 300, nir |-> 600]}

Init == InitService

Next ==
    \/ Startup
    \/ PredictFireRisk(LifetimeLocations, LifetimeNoises, LifetimeInfers)
    \/ PredictWithEarthEngine(LifetimeLocations, LifetimeOverlays, LifetimeNoises, LifetimeInfers)
    \/ MlPredictionService(LifetimeLocations, LifetimeNoises, LifetimeInfers)

Spec == Init /\ [][Next]_vars

\* C3 as claimed: once the process is up, _initialize_model has run exactly
\* once, whatever requests have been served.
C3_InitialisedOnce ==
    pc = "ready" => initCount = 1

\* Uninitialized: no usable model.
Uninitialized(service) == ~service.is_initialized \/ service.model = None

\* C4 as claimed: the chain artifact -> placeholder -> minimal fallback.  An
\* artifact that loads gives Trained(from artifact); an artifact whose load
\* raises gives the minimal fallback; no artifact gives the placeholder; a
\* failed placeholder training gives the minimal fallback; the service is
\* left Uninitialized only when the creation of the fallback itself failed.
C4_InitChain ==
    pc = "ready" =>
        LET env == startup.env
            loads == startup.disk \in {"bundle_proba", "bundle_decision",
                                       "bundle_placeholder"}
            load_raises == startup.disk \in {"corrupt", "bad_thr"}
            Fallback == ml_service.is_initialized
                            /\ ml_service.model.origin = "fallback"
        IN  /\ loads => ml_service.is_initialized
                           /\ ml_service.model.origin = "artifact"
            /\ (load_raises /\ env.fallback_fails = "no") => Fallback
            /\ (startup.disk = "absent" /\ env.train_fails = "no") =>
                  ml_service.is_initialized
                      /\ ml_service.model.origin = "placeholder"
            /\ (startup.disk = "absent" /\ env.train_fails # "no"
                    /\ env.fallback_fails = "no") => Fallback
            /\ Uninitialized(ml_service) => env.fallback_fails # "no"

\* C20 as claimed: on every initialisation path _initialize_model returns
\* True exactly when it leaves is_initialized True and a model in place.
C20_ReturnAgreesWithState ==
    pc = "ready" =>
        (ml_service.returned <=>
            (ml_service.is_initialized /\ ml_service.model # None))

(***************************************************************************)
(* Vectorizer specification: one feature mapping, one call.                *)
(***************************************************************************)

\* A profile with any subset of its keys missing.
VectorInputs ==
    {[key \in held |-> profile[key]] :
        held \in SUBSET BaseKeys, profile \in VectorProfiles}

InitVector ==
    /\ featIn \in VectorInputs
    /\ vecOut = <<>>
    /\ RegionIdle
    /\ ServiceIdle

Vectorize ==
    /\ vecOut = <<>>
    /\ vecOut' = _features_to_vector(featIn)
    /\ UNCHANGED <<featIn, regionVars, serviceVars>>

NextVector == Vectorize

SpecVector == InitVector /\ [][NextVector]_vars

\* C9: for every feature mapping, whichever keys are missing, the vector
\* returned has exactly 31 elements, with the documented default standing in
\* for a missing key.
C9_VectorLength31 ==
    vecOut # <<>> =>
        /\ Len(vecOut) = 31
        /\ DOMAIN vecOut = 1..31
        /\ "temperature" \notin DOMAIN featIn => vecOut[11] = 25000
        /\ "windSpeed" \notin DOMAIN featIn => vecOut[14] = 5000
        /\ "vegetationIndex" \notin DOMAIN featIn => vecOut[15] = 500
        /\ "windDirection" \notin DOMAIN featIn =>
              vecOut[12] = 0 /\ vecOut[13] = -vecOut[14]
        /\ "landUse" \notin DOMAIN featIn => vecOut[27] = 50000
        /\ "elevation" \notin DOMAIN featIn => vecOut[28] = 500000
        /\ "slope" \notin DOMAIN featIn => vecOut[29] = 10000
        /\ "aspect" \notin DOMAIN featIn => vecOut[30] = 180000
        /\ "hillshade" \notin DOMAIN featIn => vecOut[31] = 200000

\* The vector of a mapping that lacks static and dynamic keys alike.
C9_Witness ==
    /\ vecOut # <<>>
    /\ DOMAIN featIn = {"humidity", "slope", "windSpeed"}

\* C10: the positional layout of the vector, positions counted from 0 as in
\* the source: 5k+b holds band b times lag factor k (0.85, 0.92, 1.0);
\* 15+5i+b holds lag day i+1 minus lag day i of band b; 25 holds the burn
\* mask 0.0; 26..30 hold landUse, elevation, slope, aspect, hillshade.
\* Every element is the float32 of the value named.
C10_VectorLayout ==
    vecOut # <<>> =>
        LET band == DynamicBands(featIn)
            factor == <<850, 920, 1000>>
            lag(k, b) == Mul(band[b + 1], factor[k + 1])
        IN  /\ \A k \in 0..2, b \in 0..4 :
                  vecOut[5 * k + b + 1] = ToFloat32(lag(k, b))
            /\ \A i \in 0..1, b \in 0..4 :
                  vecOut[15 + 5 * i + b + 1] = ToFloat32(lag(i + 1, b) - lag(i, b))
            /\ vecOut[25 + 1] = 0
            /\ vecOut[26 + 1] = ToFloat32(Get(featIn, "landUse", 50000))
            /\ vecOut[27 + 1] = ToFloat32(Get(featIn, "elevation", 500000))
            /\ vecOut[28 + 1] = ToFloat32(Get(featIn, "slope", 10000))
            /\ vecOut[29 + 1] = ToFloat32(Get(featIn, "aspect", 180000))
            /\ vecOut[30 + 1] = ToFloat32(Get(featIn, "hillshade", 200000))

\* The vector of a full mapping whose day-to-day differences are not zero and
\* whose elevation the float32 cast rounds.
C10_Witness ==
    /\ vecOut # <<>>
    /\ DOMAIN featIn = BaseKeys
    /\ vecOut[16] # 0 /\ vecOut[21] # 0
    /\ vecOut[28] # featIn["elevation"]

(***************************************************************************)
(* Region resolver specification: one coordinate, one call.                *)
(***************************************************************************)

MaxLatSteps == 18
MaxLngSteps == 36

\* Every edge of every box, one tenth inside and outside of it.
LatEdges == UNION {{regions_map[i].lat_min - 1, regions_map[i].lat_min,
                    regions_map[i].lat_max, regions_map[i].lat_max + 1} :
                   i \in 1..Len(regions_map)}
LngEdges == UNION {{regions_map[i].lng_min - 1, regions_map[i].lng_min,
                    regions_map[i].lng_max, regions_map[i].lng_max + 1} :
                   i \in 1..Len(regions_map)}

\* A ten-degree grid over the globe, from (-90, -180).
GlobeGrid == {[lat |-> 100 * a - 900, lng |-> 100 * b - 1800] :
              a \in 0..MaxLatSteps, b \in 0..MaxLngSteps}

\* Points outside every box at the same distance from two nearest centroids,
\* and the location of the module's self-test.
SpecialPoints == {[lat |-> 175, lng |-> 901], [lat |-> 294, lng |-> 854],
                  [lat |-> 91, lng |-> 931], [lat |-> 286, lng |-> 772]}

Coordinates ==
    {[lat |-> a, lng |-> b] : a \in LatEdges, b \in LngEdges}
        \cup GlobeGrid \cup SpecialPoints

InitRegion ==
    /\ coord \in Coordinates
    /\ detected = NotCalled
    /\ VectorIdle
    /\ ServiceIdle

DetectRegion ==
    /\ detected = NotCalled
    /\ detected' = detect_region_from_coordinates(coord.lat, coord.lng)
    /\ UNCHANGED <<coord, vectorVars, serviceVars>>

NextRegion == DetectRegion

SpecRegion == InitRegion /\ [][NextRegion]_vars

\* The indices of the entries whose box holds the point.
Containing(c) ==
    {i \in 1..Len(regions_map) : InBounds(regions_map[i], c.lat, c.lng)}

\* The indices of the entries whose centroid is nearest to the point.
Nearest(c) ==
    {i \in 1..Len(regions_map) :
        \A k \in 1..Len(regions_map) :
            Distance(regions_map[i], c.lat, c.lng)
                <= Distance(regions_map[k], c.lat, c.lng)}

MinOf(S) == CHOOSE i \in S : \A k \in S : i <= k

\* C6: the resolver is total: for every coordinate the name returned is a
\* key of the region table (never 'Unknown'): the first entry whose box
\* holds the point if there is one, otherwise the entry with the nearest
\* centroid, the earliest in table order among equally near ones.
C6_ResolverTotal ==
    detected # NotCalled =>
        /\ detected \in RegionNames
        /\ detected # "Unknown"
        /\ IF Containing(coord) # {}
           THEN detected = regions_map[MinOf(Containing(coord))].name
           ELSE detected = regions_map[MinOf(Nearest(coord))].name

\* A point outside every box whose two nearest centroids are equally far.
C6_Witness ==
    /\ detected # NotCalled
    /\ Containing(coord) = {}
    /\ Cardinality(Nearest(coord)) >= 2

\* C7: a point inside the boxes of several regions resolves to the one
\* declared first in the table, whichever centroid is nearest.
C7_FirstMatchWins ==
    (detected # NotCalled /\ Cardinality(Containing(coord)) >= 2) =>
        /\ detected \in {regions_map[i].name : i \in Containing(coord)}
        /\ \A i \in Containing(coord) :
              regions_map[i].name # detected =>
                  \E k \in Containing(coord) :
                      k < i /\ regions_map[k].name = detected

\* A point inside several boxes whose nearest centroid belongs to another
\* region than the one returned.
C7_Witness ==
    /\ detected # NotCalled
    /\ Cardinality(Containing(coord)) >= 2
    /\ detected \notin {regions_map[i].name : i \in Nearest(coord)}

\* C19 as claimed: every region of the table is returned for some coordinate
\* inside its own box, and the self-test location (28.6, 77.2) resolves to
\* Delhi.
C19_EveryRegionReachable ==
    detected # NotCalled =>
        /\ \A n \in 1..Len(regions_map) :
              \E latitude \in regions_map[n].lat_min..regions_map[n].lat_max,
                 longitude \in regions_map[n].lng_min..regions_map[n].lng_max :
                  detect_region_from_coordinates(latitude, longitude)
                      = regions_map[n].name
        /\ coord = [lat |-> 286, lng |-> 772] => detected = "Delhi"

====
